---- MODULE Spec2Model ----
(***************************************************************************)
(* Model of batch_inference.py: the pairing scanner (find_matching_files), *)
(* the audio centering adjuster (analyze_and_adjust_audio), the inference  *)
(* launcher (run_wav2lip) and the orchestration loop (main).               *)
(*                                                                         *)
(* Paths and file names are sequences of one-character strings, so that    *)
(* os.path.splitext, os.path.join and str.lower are computed character by  *)
(* character as the library computes them.                                 *)
(*                                                                         *)
(* Durations are whole numbers of quarter seconds ("ticks"): 10 s is 40    *)
(* ticks.  The files a folder starts with last a whole number of seconds,  *)
(* which keeps the float division (video - audio) / 2 exact in integers    *)
(* for every file the model can reach (checked by PaddingExact).           *)
(***************************************************************************)
EXTENDS Integers, Sequences, FiniteSets, TLC

VARIABLES
    folder_path,          \* main's folder_path argument
    dir,                  \* the folder on disk: file name -> content
    listing,              \* the result of os.listdir(folder_path) handed to the scanner
    pad_audio,            \* main's pad_audio argument
    pc,                   \* position of the run: start, adjust, infer, done, crashed
    matches,              \* main's matches list (result of find_matching_files)
    i,                    \* index in matches of the pair being processed (1-based)
    adjusted_audio_path,  \* main's adjusted_audio_path for the current pair
    durations,            \* <<video_duration, audio_duration>> read by the last analysis, <<>> if none
    handles,              \* clips opened and not closed
    calls,                \* inference invocations of this run, in order
    written,              \* paths written by analyze_and_adjust_audio in this run
    failure,              \* why the run crashed: none, decode, write, launch
    scan_dir,             \* the folder as it was when this run scanned it
    runs                  \* number of runs of main started so far

vars == <<folder_path, dir, listing, pad_audio, pc, matches, i, adjusted_audio_path,
          durations, handles, calls, written, failure, scan_dir, runs>>

(***************************************************************************)
(* Bounds                                                                  *)
(***************************************************************************)
MaxListing == 4
MaxRuns == 2

(***************************************************************************)
(* Strings                                                                 *)
(***************************************************************************)
Upper == <<"A","B","C","D","E","F","G","H","I","J","K","L","M",
           "N","O","P","Q","R","S","T","U","V","W","X","Y","Z">>
Lower == <<"a","b","c","d","e","f","g","h","i","j","k","l","m",
           "n","o","p","q","r","s","t","u","v","w","x","y","z">>

LowerChar(c) ==
    IF \E k \in 1..Len(Upper) : Upper[k] = c
    THEN Lower[CHOOSE k \in 1..Len(Upper) : Upper[k] = c]
    ELSE c

\* a faulty variant of lower: the extension is compared as written
lower_asis(s) == s

\* str.lower()
lower(s) == [k \in 1..Len(s) |-> LowerChar(s[k])]

\* str.rfind(c) as a 1-based index, 0 when c does not occur
rfind(s, c) ==
    IF \E k \in 1..Len(s) : s[k] = c
    THEN CHOOSE k \in 1..Len(s) : s[k] = c /\ \A j \in (k+1)..Len(s) : s[j] # c
    ELSE 0

\* os.path.splitext (posixpath): <<root, ext>>; the extension starts at the last
\* dot of the last path component, unless only dots precede it in that component
splitext(p) ==
    LET sepIndex == rfind(p, "/")
        dotIndex == rfind(p, ".")
    IN  IF dotIndex > sepIndex
           /\ \E k \in (sepIndex+1)..(dotIndex-1) : p[k] # "."
        THEN <<SubSeq(p, 1, dotIndex-1), SubSeq(p, dotIndex, Len(p))>>
        ELSE <<p, <<>>>>

\* os.path.join (posixpath) of a folder and one component
join(a, b) ==
    IF b # <<>> /\ b[1] = "/" THEN b
    ELSE IF a = <<>> \/ a[Len(a)] = "/" THEN a \o b
    ELSE a \o <<"/">> \o b

\* os.path.basename
NameOf(p) == SubSeq(p, rfind(p, "/") + 1, Len(p))

MP4 == <<".","m","p","4">>
MP3 == <<".","m","p","3">>
OutputSuffix == <<"-","o","u","t","p","u","t",".","m","p","4">>
PaddedSuffix == <<"-","p","a","d","d","e","d",".","m","p","3">>

(***************************************************************************)
(* The file system                                                         *)
(***************************************************************************)
\* a faulty variant of exists: no output is ever found
exists_never(folder, d, path) == FALSE

\* os.path.exists for a path, the folder holding the files of d
exists(folder, d, path) == \E f \in DOMAIN d : join(folder, f) = path

\* the function d with d[name] set to content
WriteFile(d, name, content) ==
    [f \in DOMAIN d \cup {name} |-> IF f = name THEN content ELSE d[f]]

(***************************************************************************)
(* Python dicts: a sequence of <<key, value>> in insertion order           *)
(***************************************************************************)
None == <<>>

HasKey(d, k) == \E j \in 1..Len(d) : d[j][1] = k

\* d[k] = v
dict_set(d, k, v) ==
    IF HasKey(d, k)
    THEN [d EXCEPT ![CHOOSE j \in 1..Len(d) : d[j][1] = k] = <<k, v>>]
    ELSE Append(d, <<k, v>>)

\* d.get(k)
dict_get(d, k) ==
    IF HasKey(d, k) THEN d[CHOOSE j \in 1..Len(d) : d[j][1] = k][2] ELSE None

(***************************************************************************)
(* find_matching_files                                                     *)
(***************************************************************************)
\* the dictionaries videos and audios after the first n entries of the listing
RECURSIVE ScanFiles(_, _, _)
ScanFiles(folder, files, n) ==
    IF n = 0 THEN [videos |-> <<>>, audios |-> <<>>]
    ELSE LET prev == ScanFiles(folder, files, n-1)
             file == files[n]
             file_path == join(folder, file)
             split == splitext(file)
             basename == split[1]
             extension == split[2]
             lowered == lower(extension)
         IN  IF lowered = MP4
             THEN [prev EXCEPT !.videos = dict_set(@, basename, file_path)]
             ELSE IF lowered = MP3
             THEN [prev EXCEPT !.audios = dict_set(@, basename, file_path)]
             ELSE prev

\* the path whose existence makes the scanner skip a video
skip_path(video_path) == splitext(video_path)[1] \o OutputSuffix

\* the list matches after the first n items of videos
RECURSIVE MatchVideos(_, _, _, _, _)
MatchVideos(folder, d, videos, audios, n) ==
    IF n = 0 THEN <<>>
    ELSE LET prev == MatchVideos(folder, d, videos, audios, n-1)
             basename == videos[n][1]
             video_path == videos[n][2]
             audio_path == dict_get(audios, basename)
         IN  IF audio_path # None
             THEN IF exists(folder, d, skip_path(video_path))
                  THEN prev
                  ELSE Append(prev, <<video_path, audio_path>>)
             ELSE prev

find_matching_files(folder, files, d) ==
    LET s == ScanFiles(folder, files, Len(files))
    IN  MatchVideos(folder, d, s.videos, s.audios, Len(s.videos))

(***************************************************************************)
(* Media: the content of a file is its layout, a sequence of segments      *)
(***************************************************************************)
Segment(kind, d, src) == [kind |-> kind, dur |-> d, src |-> src]

\* a file as recorded, of duration d
Original(kind, name, d) == <<Segment(kind, d, name)>>

\* clip.duration
RECURSIVE Duration(_)
Duration(clip) ==
    IF clip = <<>> THEN 0 ELSE clip[1].dur + Duration(Tail(clip))

\* generate_silence
generate_silence(duration) == <<Segment("silence", duration, <<>>)>>

\* concatenate_audioclips
RECURSIVE concatenate_audioclips(_)
concatenate_audioclips(clips) ==
    IF clips = <<>> THEN <<>> ELSE clips[1] \o concatenate_audioclips(Tail(clips))

(***************************************************************************)
(* analyze_and_adjust_audio                                                *)
(***************************************************************************)
\* a faulty variant of is_shorter: equal durations are padded too
is_shorter_or_equal(audio_duration, video_duration) == audio_duration <= video_duration

\* the test that decides whether the audio is padded
is_shorter(audio_duration, video_duration) == audio_duration < video_duration

\* a faulty variant of padding_duration: the whole difference, not half of it
padding_duration_whole(video_duration, audio_duration) == video_duration - audio_duration

padding_duration(video_duration, audio_duration) ==
    (video_duration - audio_duration) \div 2

\* the clip that is written: silence, then the audio
centered_audio(video_duration, audio_clip) ==
    LET silent_clip == generate_silence(padding_duration(video_duration, Duration(audio_clip)))
    IN  concatenate_audioclips(<<silent_clip, audio_clip>>)

padded_path(audio_path) == splitext(audio_path)[1] \o PaddedSuffix

VideoHandle(path) == <<"video", path>>
AudioHandle(path) == <<"audio", path>>

(***************************************************************************)
(* main and run_wav2lip                                                    *)
(***************************************************************************)
\* a faulty variant of output_path: the suffix is appended to the whole video path
output_path_noext(video_path) == video_path \o OutputSuffix

output_path(video_path) == splitext(video_path)[1] \o OutputSuffix

\* a faulty variant of command: --face and --audio exchanged
command_swapped(video_path, audio_path, outfile) ==
    [face |-> audio_path, audio |-> video_path, outfile |-> outfile]

\* the arguments of the inference process that depend on the pair
command(video_path, audio_path, outfile) ==
    [face |-> video_path, audio |-> audio_path, outfile |-> outfile]

\* run_wav2lip returns normally after exit status 0 and after a caught
\* CalledProcessError; any other error of subprocess.run is not caught
run_wav2lip_returns(exit) == exit \in {"zero", "nonzero"}

\* a faulty variant of after_adjust: a failed analysis is swallowed and the pair goes on
after_adjust_swallowed(outcome) == "infer"

\* where main stands after its call of analyze_and_adjust_audio: no handler
\* surrounds the call, so an error raised in it ends the run
after_adjust(outcome) == IF outcome = "ok" THEN "infer" ELSE "crashed"

\* the file the inference process leaves at --outfile
InferenceOutput(outfile, audio_clip) ==
    Original("video", NameOf(outfile), Duration(audio_clip))

\* all enumeration orders of a set of names
RECURSIVE Listings(_)
Listings(S) ==
    IF S = {} THEN {<<>>}
    ELSE UNION {{<<x>> \o l : l \in Listings(S \ {x})} : x \in S}

(***************************************************************************)
(* Inputs                                                                  *)
(***************************************************************************)
Str_a == <<"a">>
Str_b == <<"b">>
Str_a_padded == <<"a","-","p","a","d","d","e","d">>
Str_a_output == <<"a","-","o","u","t","p","u","t">>

\* the names a folder given to the scanner alone may hold
ScanNames ==
    { Str_a \o MP4, Str_a \o <<".","M","P","4">>, Str_a \o MP3, Str_a \o <<".","M","p","3">>,
      Str_a_output \o MP4, Str_b \o MP4, Str_b \o MP3, Str_b \o <<".","t","x","t">>,
      MP4, Str_a }

ScanFolders == { <<"d">>, <<"v",".","1">>, <<"d","/">> }

\* the names a folder given to main may start with
MainNames == { Str_a \o MP4, Str_a \o MP3, Str_a_padded \o MP4, Str_a_padded \o MP3 }

MainFolder == <<"d">>

VideoDurations == {40}
AudioDurations == {16, 40, 48}

KindOf(n) ==
    IF lower(splitext(n)[2]) = MP4 THEN "video"
    ELSE IF lower(splitext(n)[2]) = MP3 THEN "audio"
    ELSE "other"

\* the recordings a file of that name may hold
FileChoices(n) ==
    {Original(KindOf(n), n, t) :
        t \in (IF KindOf(n) = "audio" THEN AudioDurations ELSE VideoDurations)}

\* the folders holding exactly the given names
Folders(names) ==
    {d \in [names -> UNION {FileChoices(n) : n \in names}] :
        \A n \in names : d[n] \in FileChoices(n)}

Range(s) == {s[k] : k \in 1..Len(s)}

\* the sequences of at most n distinct names
RECURSIVE ListingsUpTo(_, _)
ListingsUpTo(names, n) ==
    IF n = 0 THEN {<<>>}
    ELSE LET shorter == ListingsUpTo(names, n-1)
             longest == {l \in shorter : Len(l) = n-1}
         IN  shorter \cup
             UNION {{Append(l, x) : x \in names \ Range(l)} : l \in longest}

(***************************************************************************)
(* The scanner alone: find_matching_files applied to a folder and one      *)
(* enumeration order of it                                                 *)
(***************************************************************************)
InitScan ==
    /\ folder_path \in ScanFolders
    /\ listing \in ListingsUpTo(ScanNames, MaxListing)
    /\ dir = [n \in Range(listing) |-> Original(KindOf(n), n, 40)]
    /\ pad_audio = TRUE
    /\ pc = "start"
    /\ matches = <<>>
    /\ i = 1
    /\ adjusted_audio_path = None
    /\ durations = <<>>
    /\ handles = {}
    /\ calls = <<>>
    /\ written = {}
    /\ failure = "none"
    /\ scan_dir = dir
    /\ runs = 1

ScanListing ==
    /\ pc = "start"
    /\ matches' = find_matching_files(folder_path, listing, dir)
    /\ pc' = "scanned"
    /\ UNCHANGED <<folder_path, dir, listing, pad_audio, i, adjusted_audio_path,
                   durations, handles, calls, written, failure, scan_dir, runs>>

NextScan == ScanListing

SpecScan == InitScan /\ [][NextScan]_vars

(***************************************************************************)
(* main: runs of the script on one folder                                  *)
(***************************************************************************)
Init ==
    /\ folder_path = MainFolder
    /\ dir \in UNION {Folders(names) : names \in SUBSET MainNames}
    /\ listing = <<>>
    /\ pad_audio \in BOOLEAN
    /\ pc = "start"
    /\ matches = <<>>
    /\ i = 1
    /\ adjusted_audio_path = None
    /\ durations = <<>>
    /\ handles = {}
    /\ calls = <<>>
    /\ written = {}
    /\ failure = "none"
    /\ scan_dir = dir
    /\ runs = 1

video_path == matches[i][1]
audio_path == matches[i][2]

\* main, line 128: the scan, for any order os.listdir may return
Scan ==
    /\ pc = "start"
    /\ matches' \in {find_matching_files(folder_path, files, dir) :
                         files \in Listings(DOMAIN dir)}
    /\ pc' = IF matches' = <<>> THEN "done" ELSE "adjust"
    /\ i' = 1
    /\ scan_dir' = dir
    /\ UNCHANGED <<folder_path, dir, listing, pad_audio, adjusted_audio_path,
                   durations, handles, calls, written, failure, runs>>

\* analyze_and_adjust_audio fails at VideoFileClip(video_path): nothing is open
VideoOpenFails ==
    /\ handles' = handles
    /\ failure' = "decode"
    /\ pc' = after_adjust("decode")
    /\ UNCHANGED <<dir, durations, written, adjusted_audio_path>>

\* analyze_and_adjust_audio fails at AudioFileClip(audio_path): the video clip
\* is open and the lines that close it are not reached
AudioOpenFails ==
    /\ handles' = handles \cup {VideoHandle(video_path)}
    /\ failure' = "decode"
    /\ pc' = after_adjust("decode")
    /\ UNCHANGED <<dir, durations, written, adjusted_audio_path>>

\* both clips open, the audio is shorter and write_audiofile fails: both clips
\* are open and the lines that close them are not reached.  The write failed
\* before it created the file (k = 0), or after it put the first k - 1
\* segments of the clip there: an empty or truncated file is left.
WriteFails ==
    LET video_clip == dir[NameOf(video_path)]
        audio_clip == dir[NameOf(audio_path)]
        clip == centered_audio(Duration(video_clip), audio_clip)
    IN  /\ is_shorter(Duration(audio_clip), Duration(video_clip))
        /\ handles' = handles \cup {VideoHandle(video_path), AudioHandle(audio_path)}
        /\ durations' = <<Duration(video_clip), Duration(audio_clip)>>
        /\ failure' = "write"
        /\ pc' = after_adjust("write")
        /\ \E k \in 0..Len(clip) :
               IF k = 0
               THEN UNCHANGED <<dir, written>>
               ELSE /\ dir' = WriteFile(dir, NameOf(padded_path(audio_path)),
                                        SubSeq(clip, 1, k - 1))
                    /\ written' = written \cup {padded_path(audio_path)}
        /\ UNCHANGED adjusted_audio_path

\* analyze_and_adjust_audio returns: lines 74 to 97
Adjusts ==
    LET video_clip == dir[NameOf(video_path)]
        audio_clip == dir[NameOf(audio_path)]
        video_duration == Duration(video_clip)
        audio_duration == Duration(audio_clip)
        opened == handles \cup {VideoHandle(video_path), AudioHandle(audio_path)}
    IN  /\ durations' = <<video_duration, audio_duration>>
        /\ IF is_shorter(audio_duration, video_duration)
           THEN /\ adjusted_audio_path' = padded_path(audio_path)
                /\ dir' = WriteFile(dir, NameOf(padded_path(audio_path)),
                                    centered_audio(video_duration, audio_clip))
                /\ written' = written \cup {padded_path(audio_path)}
           ELSE /\ adjusted_audio_path' = audio_path
                /\ UNCHANGED <<dir, written>>
        /\ handles' = opened \ {VideoHandle(video_path), AudioHandle(audio_path)}
        /\ pc' = after_adjust("ok")
        /\ UNCHANGED failure

\* main, lines 131 and 132: the call of analyze_and_adjust_audio
AnalyzeAndAdjust ==
    /\ pc = "adjust"
    /\ pad_audio
    /\ \/ VideoOpenFails
       \/ AudioOpenFails
       \/ WriteFails
       \/ Adjusts
    /\ UNCHANGED <<folder_path, listing, pad_audio, matches, i, calls, scan_dir, runs>>

\* main, lines 133 and 134: padding is disabled
KeepAudio ==
    /\ pc = "adjust"
    /\ ~pad_audio
    /\ adjusted_audio_path' = audio_path
    /\ durations' = <<>>
    /\ pc' = "infer"
    /\ UNCHANGED <<folder_path, dir, listing, pad_audio, matches, i, handles, calls,
                   written, failure, scan_dir, runs>>

\* main, lines 136 and 138: run_wav2lip on the current pair, then the next
\* pair or the end of the loop.  subprocess.run either cannot start the
\* process (an OSError, which is no CalledProcessError and leaves run_wav2lip
\* and main), or the process exits with status zero or non-zero; a process
\* that ran has written --outfile or has not, whatever its exit status.
RunWav2Lip ==
    /\ pc = "infer"
    /\ \E exit \in {"zero", "nonzero", "oserror"}, wrote \in BOOLEAN :
        LET outfile == output_path(video_path)
            cmd == command(video_path, adjusted_audio_path, outfile)
            audio_clip == dir[NameOf(cmd.audio)]
            started == exit # "oserror"
        IN  /\ wrote => started
            /\ calls' = IF started
                        THEN Append(calls,
                   [face |-> cmd.face, audio |-> cmd.audio, outfile |-> cmd.outfile,
                    exit |-> exit, pair |-> i, pad |-> pad_audio, durations |-> durations,
                    outfile_existed |-> exists(folder_path, dir, cmd.outfile),
                    audio_clip |-> audio_clip])
                        ELSE calls
            /\ dir' = IF wrote
                      THEN WriteFile(dir, NameOf(cmd.outfile),
                                     InferenceOutput(cmd.outfile, audio_clip))
                      ELSE dir
            /\ IF run_wav2lip_returns(exit)
               THEN /\ pc' = IF i < Len(matches) THEN "adjust" ELSE "done"
                    /\ i' = IF i < Len(matches) THEN i + 1 ELSE i
                    /\ UNCHANGED failure
               ELSE /\ pc' = "crashed"
                    /\ failure' = IF started THEN "inference" ELSE "launch"
                    /\ UNCHANGED i
    /\ UNCHANGED <<folder_path, listing, pad_audio, matches, adjusted_audio_path,
                   durations, handles, written, scan_dir, runs>>

\* the script is started again on the same folder; the handles a crashed run
\* left open end with its process
NewRun ==
    /\ pc \in {"done", "crashed"}
    /\ runs < MaxRuns
    /\ runs' = runs + 1
    /\ pad_audio' \in BOOLEAN
    /\ pc' = "start"
    /\ matches' = <<>>
    /\ i' = 1
    /\ adjusted_audio_path' = None
    /\ durations' = <<>>
    /\ handles' = {}
    /\ calls' = <<>>
    /\ written' = {}
    /\ failure' = "none"
    /\ scan_dir' = dir
    /\ UNCHANGED <<folder_path, dir, listing>>

Next == Scan \/ AnalyzeAndAdjust \/ KeepAudio \/ RunWav2Lip \/ NewRun

Spec == Init /\ [][Next]_vars

(***************************************************************************)
(* Vocabulary of the properties, stated without the operators of the model *)
(***************************************************************************)
VideoExtensions == {<<".", m, p, "4">> : m \in {"m", "M"}, p \in {"p", "P"}}
AudioExtensions == {<<".", m, p, "3">> : m \in {"m", "M"}, p \in {"p", "P"}}

\* the path of a file of the folder
PathIn(folder, name) ==
    IF folder[Len(folder)] = "/" THEN folder \o name ELSE folder \o <<"/">> \o name

\* a path without its last four characters, and those four characters
Stem(p) == SubSeq(p, 1, Len(p) - 4)
Ext(p) == SubSeq(p, Len(p) - 3, Len(p))

\* the basenames of the folder d: the names that carry an extension, without it
Basenames(d) == {Stem(n) : n \in {f \in DOMAIN d : Len(f) > 4 /\ f[Len(f) - 3] = "."}}

VideoPaths(folder, d, b) ==
    {PathIn(folder, b \o e) : e \in {x \in VideoExtensions : b \o x \in DOMAIN d}}
AudioPaths(folder, d, b) ==
    {PathIn(folder, b \o e) : e \in {x \in AudioExtensions : b \o x \in DOMAIN d}}

OutputExists(d, b) == (b \o OutputSuffix) \in DOMAIN d

\* the positions of the list ms that hold a pair for basename b
PairsFor(folder, d, ms, b) ==
    {k \in 1..Len(ms) : /\ ms[k][1] \in VideoPaths(folder, d, b)
                        /\ ms[k][2] \in AudioPaths(folder, d, b)}

(***************************************************************************)
(* Properties of find_matching_files                                       *)
(***************************************************************************)
\* C1: whatever the folder holds and in whatever order it is enumerated, a
\* basename with a video (.mp4 in any case), an audio (.mp3 in any case) and no
\* <basename>-output.mp4 has exactly one pair in the returned list, also when
\* several files differing in the case of the extension share the basename.
C1_ExactlyOnePair ==
    pc = "scanned" =>
        \A b \in Basenames(dir) :
            ( /\ VideoPaths(folder_path, dir, b) # {}
              /\ AudioPaths(folder_path, dir, b) # {}
              /\ ~OutputExists(dir, b) )
            => Cardinality(PairsFor(folder_path, dir, matches, b)) = 1

\* the scan of a folder with a.mp4, a.MP4 and a.mp3 returned one pair
C1_Witness ==
    /\ pc = "scanned"
    /\ {Str_a \o MP4, Str_a \o <<".","M","P","4">>, Str_a \o MP3} \subseteq DOMAIN dir
    /\ ~OutputExists(dir, Str_a)
    /\ Cardinality(PairsFor(folder_path, dir, matches, Str_a)) = 1

\* C2: every returned pair is a video and an audio of one basename whose
\* output file does not exist, and no basename has two pairs; so a basename
\* with only a video, only an audio or an existing output has no pair.
C2_PairsAreJustified ==
    pc = "scanned" =>
        /\ \A k \in 1..Len(matches) :
               \E b \in Basenames(dir) :
                   /\ k \in PairsFor(folder_path, dir, matches, b)
                   /\ ~OutputExists(dir, b)
        /\ \A b \in Basenames(dir) :
               Cardinality(PairsFor(folder_path, dir, matches, b)) <= 1

\* the scan of a folder with a.mp4, a.mp3, a-output.mp4 and a lone b.mp4
\* returned no pair
C2_Witness ==
    /\ pc = "scanned"
    /\ DOMAIN dir = {Str_a \o MP4, Str_a \o MP3, Str_a_output \o MP4, Str_b \o MP4}
    /\ matches = <<>>

(***************************************************************************)
(* Properties of analyze_and_adjust_audio                                  *)
(***************************************************************************)
Silence(d) == Segment("silence", d, <<>>)

\* analyze_and_adjust_audio has just returned for the current pair, whose audio
\* it found shorter than the video
JustPadded ==
    /\ pc = "infer"
    /\ pad_audio
    /\ durations # <<>>
    /\ durations[2] < durations[1]

\* every padding the model computes is a whole number of ticks
PaddingExact == JustPadded => (durations[1] - durations[2]) % 2 = 0

\* C3 as stated: the written file lasts audio + 2 * ((video - audio) / 2), the
\* video's duration, and is silence, the original audio, the same silence.
C3_SilenceOnBothSides ==
    JustPadded =>
        LET pad == (durations[1] - durations[2]) \div 2
            audio_clip == dir[NameOf(audio_path)]
            file == dir[NameOf(adjusted_audio_path)]
        IN  /\ Duration(file) = durations[2] + 2 * pad
            /\ file = <<Silence(pad)>> \o audio_clip \o <<Silence(pad)>>

\* C3 as amended: the written file lasts audio + (video - audio) / 2, half
\* the sum of the two durations, and is silence of (video - audio) / 2
\* followed by the original audio, with nothing after it.
C3_SilenceThenAudio ==
    JustPadded =>
        LET pad == (durations[1] - durations[2]) \div 2
            audio_clip == dir[NameOf(audio_path)]
            file == dir[NameOf(adjusted_audio_path)]
        IN  /\ Duration(file) = durations[2] + pad
            /\ 2 * Duration(file) = durations[1] + durations[2]
            /\ file = <<Silence(pad)>> \o audio_clip

\* a 4 s audio was padded for a 10 s video: 3 s of silence, then the audio
C3_Witness ==
    /\ JustPadded
    /\ durations = <<40, 16>>
    /\ dir[NameOf(adjusted_audio_path)] =
           <<Silence(12), Segment("audio", 16, NameOf(audio_path))>>

\* C4: when the audio is as long as the video or longer, the call returns the
\* audio path it was given and leaves every file of the folder as it was.
C4_NotShorterLeavesFolder ==
    [][ ( /\ pc = "adjust"
          /\ pad_audio
          /\ pc' = "infer"
          /\ Duration(dir[NameOf(audio_path)]) >= Duration(dir[NameOf(video_path)]) )
        => ( /\ adjusted_audio_path' = audio_path
             /\ dir' = dir ) ]_vars

\* the call returned for an audio exactly as long as the video, and no padded
\* file is in the folder
C4_Witness ==
    /\ pc = "infer"
    /\ pad_audio
    /\ durations # <<>>
    /\ durations[1] = durations[2]
    /\ adjusted_audio_path = audio_path
    /\ \A n \in DOMAIN dir : Len(n) > 4 => Ext(n) # MP3 \/ n \in DOMAIN scan_dir

\* C8 as stated: no clip is open once a call of analyze_and_adjust_audio has
\* ended, however it ended.
C8_HandlesReleased == handles = {}

(***************************************************************************)
(* Properties of main and run_wav2lip                                      *)
(***************************************************************************)
\* C5: each invocation has --face the pair's video, --outfile the video's stem
\* plus -output.mp4, and --audio the audio's stem plus -padded.mp3 when
\* padding is enabled and the audio was found shorter, the pair's audio
\* otherwise.
C5_CommandOfPair ==
    \A k \in 1..Len(calls) :
        LET c == calls[k]
            video == matches[c.pair][1]
            audio == matches[c.pair][2]
            padded == /\ c.pad
                      /\ c.durations # <<>>
                      /\ c.durations[2] < c.durations[1]
        IN  /\ c.face = video
            /\ c.outfile = Stem(video) \o OutputSuffix
            /\ c.audio = IF padded THEN Stem(audio) \o PaddedSuffix ELSE audio

\* the run of the folder a.mp4 (10 s), a.mp3 (4 s) with padding invoked
\* --face d/a.mp4 --audio d/a-padded.mp3 --outfile d/a-output.mp4
C5_Witness ==
    /\ pc = "done"
    /\ \E k \in 1..Len(calls) :
           /\ calls[k].durations = <<40, 16>>
           /\ calls[k].face = PathIn(MainFolder, Str_a \o MP4)
           /\ calls[k].audio = PathIn(MainFolder, Str_a_padded \o MP3)
           /\ calls[k].outfile = PathIn(MainFolder, Str_a_output \o MP4)
    /\ \E k \in 1..Len(calls) : ~calls[k].pad \/ calls[k].durations[2] >= calls[k].durations[1]

\* the invocations made so far are those of the first pairs, in scan order,
\* and the pair in progress has none yet
CallsFollowScan ==
    /\ Len(calls) <= Len(matches)
    /\ \A k \in 1..Len(calls) :
           /\ calls[k].pair = k
           /\ calls[k].face = matches[k][1]
    /\ pc \in {"adjust", "infer"} => Len(calls) = i - 1

RunOver == pc \in {"done", "crashed"}

\* C6: a non-zero exit does not stop the batch, and a run without decode
\* failure invokes the inference process once for every pair of the scan, in
\* scan order, one pair after the other, whatever the exit statuses.
C6_EveryPairUnlessDecodeFails ==
    /\ CallsFollowScan
    /\ (RunOver /\ failure # "decode") => Len(calls) = Len(matches)

\* C7: with padding enabled, a decode failure at a pair ends the run there: the
\* inference process has been invoked for the pairs before it and for no other.
C7_DecodeFailureEndsRun ==
    failure = "decode" =>
        /\ pc = "crashed"
        /\ pad_audio
        /\ Len(calls) = i - 1
        /\ \A k \in 1..Len(calls) : calls[k].pair = k

\* the second of two pairs failed to decode after the first was invoked
C7_Witness ==
    /\ failure = "decode"
    /\ pc = "crashed"
    /\ Len(matches) = 2
    /\ i = 2
    /\ Len(calls) = 1

\* C9: no invocation names an --outfile that exists when it is made.
C9_OutfileNeverExists ==
    \A k \in 1..Len(calls) : ~calls[k].outfile_existed

\* a second run skipped the pair a, whose output the first run had written,
\* and invoked the inference process for another pair
C9_Witness ==
    /\ runs = 2
    /\ {Str_a \o MP4, Str_a \o MP3, Str_a_output \o MP4} \subseteq DOMAIN scan_dir
    /\ Len(calls) >= 1
    /\ \A k \in 1..Len(calls) : calls[k].face # PathIn(MainFolder, Str_a \o MP4)

PairInputs == UNION {{matches[k][1], matches[k][2]} : k \in 1..Len(matches)}

AudioSources(clip) == {clip[k].src : k \in {j \in 1..Len(clip) : clip[j].kind = "audio"}}

\* C10 as stated: analyze_and_adjust_audio writes to no input of a pair of the
\* scan, and the audio handed to the inference process for a pair is that
\* pair's audio as scanned or is made from it alone.
C10_InputsUntouched ==
    /\ written \cap PairInputs = {}
    /\ \A k \in 1..Len(calls) :
           LET own == scan_dir[NameOf(matches[calls[k].pair][2])]
           IN  \/ calls[k].audio_clip = own
               \/ AudioSources(calls[k].audio_clip) \subseteq AudioSources(own)

====
